---- MODULE Spec2Model ----
(***************************************************************************)
(* Model of the FedEx tracking client (src/fedex_api.py): the event        *)
(* normalisation and multi-result resolution done by                       *)
(* FedexAPI.track_by_number, and the identifier resolution and document    *)
(* fetch done by FedexAPI.download_pod.                                    *)
(*                                                                         *)
(* Conventions.  Python's None is the empty tuple and a present value v is *)
(* the one-element tuple <<v>>.  Strings that the code splits are tuples   *)
(* of one-character strings.  A timestamp is the instant the ISO-8601      *)
(* string denotes, an integer on the time axis (comparison of aware        *)
(* datetimes is comparison of instants).  The response is the sequence of  *)
(* result blocks in the order in which the two nested loops over           *)
(* completeTrackResults / trackResults visit them.                         *)
(***************************************************************************)
EXTENDS Integers, Sequences, FiniteSets, TLC

\* ------------------------------------------------------------------ bounds
MaxTime == 2
MaxEvents == 3
MaxBlocks == 2

\* ------------------------------------------------------------ value helpers
None == <<>>
Some(v) == <<v>>

\* class Event: the member names of the enumeration
EventNames ==
    {"ACTUAL_DELIVERY", "ACTUAL_PICKUP", "ACTUAL_TENDER", "ANTICIPATED_TENDER",
     "APPOINTMENT_DELIVERY", "ATTEMPTED_DELIVERY", "COMMITMENT",
     "ESTIMATED_ARRIVAL_AT_GATEWAY", "ESTIMATED_DELIVERY", "ESTIMATED_PICKUP",
     "ESTIMATED_RETURN_TO_STATION", "SHIP", "SHIPMENT_DATA_RECEIVED"}

\* dataclass DateAndTimeEvent
DateAndTimeEvent(dt, type) == [datetime |-> dt, type |-> type]

\* dataclass TrackingResult with every field but is_valid at its default
TrackingResult(is_valid) ==
    [is_valid |-> is_valid, tracking_number |-> None, unique_id |-> None,
     carrier_code |-> None, is_delivered |-> None, is_shipped |-> None,
     date_ship |-> None, date_delivery |-> None, latest_status |-> None,
     events |-> None, package |-> None]

\* ------------------------------------------------------------------ inputs
\* tags the carrier may send: four members of Event and one that is not
RawTags == {"SHIP", "ACTUAL_DELIVERY", "ESTIMATED_DELIVERY", "COMMITMENT",
            "PICKUP_EXCEPTION"}

RawEvents == [type : RawTags, dateTime : 1..MaxTime]

BareNumber == <<"7">>
CarrierUid == <<"Q", "~", "7", "~", "F">>
PodIds == {BareNumber, <<"Q", "~", "7">>, CarrierUid}

\* the shape of a response body: per result block the number of its events,
\* or -1 for a block without the dateAndTimes key; at most MaxBlocks blocks
\* holding at most MaxEvents events in total
RECURSIVE Total(_, _)
Total(shape, i) ==
    IF i > Len(shape) THEN 0
    ELSE (IF shape[i] < 0 THEN 0 ELSE shape[i]) + Total(shape, i + 1)

Shapes ==
    UNION {{sh \in [1..k -> -1..MaxEvents] : Total(sh, 1) <= MaxEvents}
              : k \in 0..MaxBlocks}

\* the block at position i of the body with this shape whose events, block
\* after block, are those of flat
Block(shape, flat, i) ==
    LET before == Total(SubSeq(shape, 1, i - 1), 1)
    IN  [trackingNumber |-> BareNumber, trackingNumberUniqueId |-> CarrierUid,
         carrierCode |-> "FDXE", hasDateAndTimes |-> shape[i] >= 0,
         dateAndTimes |->
            IF shape[i] <= 0 THEN <<>>
            ELSE SubSeq(flat, before + 1, before + shape[i])]

\* what the transport delivers: an HTTP error status, a body with "errors",
\* or a body with the result blocks
Statuses == {"http_error", "app_error", "ok"}

ShapesFor(status) == IF status = "ok" THEN Shapes ELSE {<<>>}

Response(status, shape, flat) ==
    [status_ok |-> status # "http_error", errors |-> status = "app_error",
     blocks |-> [i \in 1..Len(shape) |-> Block(shape, flat, i)]]

\* --------------------------------------------------------- track_by_number
\* the locals declared before the event loop
Locals0 ==
    [shipped |-> FALSE, delivered |-> FALSE, ship_date |-> None,
     delivery_date |-> None, latest_date |-> None, latest_type |-> None,
     events |-> <<>>, exc |-> "none"]

\* the if / elif / elif chain on the event type
Classify_KeepFirstEstimate(st, event_type, event_date) ==
    IF event_type = "SHIP"
    THEN [st EXCEPT !.shipped = TRUE, !.ship_date = Some(event_date)]
    ELSE IF event_type = "ACTUAL_DELIVERY"
    THEN [st EXCEPT !.delivered = TRUE, !.delivery_date = Some(event_date)]
    ELSE IF event_type = "ESTIMATED_DELIVERY" /\ st.delivery_date = None
    THEN [st EXCEPT !.delivery_date = Some(event_date)]
    ELSE st

Classify(st, event_type, event_date) ==
    IF event_type = "SHIP"
    THEN [st EXCEPT !.shipped = TRUE, !.ship_date = Some(event_date)]
    ELSE IF event_type = "ACTUAL_DELIVERY"
    THEN [st EXCEPT !.delivered = TRUE, !.delivery_date = Some(event_date)]
    ELSE IF event_type = "ESTIMATED_DELIVERY"
    THEN [st EXCEPT !.delivery_date = Some(event_date)]
    ELSE st

\* the test that makes an event the latest one
EventIsLater_OrEqual(latest_type, event_date, latest_date) ==
    latest_type = None \/ event_date >= latest_date[1]

EventIsLater(latest_type, event_date, latest_date) ==
    latest_type = None \/ event_date > latest_date[1]

\* Event[event["type"]]: lookup by member name, KeyError for any other tag
EventLookup_Lenient(tag) ==
    [exc |-> "none", member |-> tag]

EventLookup(tag) ==
    IF tag \in EventNames THEN [exc |-> "none", member |-> tag]
    ELSE [exc |-> "KeyError", member |-> tag]

\* one iteration of the event loop
EventStep(st, event) ==
    LET lk == EventLookup(event.type)
        event_type == lk.member
        event_date == event.dateTime
        c == Classify(st, event_type, event_date)
        l == IF EventIsLater(c.latest_type, event_date, c.latest_date)
             THEN [c EXCEPT !.latest_date = Some(event_date),
                            !.latest_type = Some(event_type)]
             ELSE c
    IN  IF lk.exc # "none" THEN [st EXCEPT !.exc = lk.exc]
        ELSE [l EXCEPT !.events =
                 Append(@, DateAndTimeEvent(Some(event_date), Some(event_type)))]

RECURSIVE EventLoop(_, _, _)
EventLoop(st, evs, i) ==
    IF i > Len(evs) \/ st.exc # "none" THEN st
    ELSE EventLoop(EventStep(st, evs[i]), evs, i + 1)

\* the check for the dateAndTimes key
LacksDateAndTimes_Never(tracking_result) == FALSE

LacksDateAndTimes(tracking_result) == ~tracking_result.hasDateAndTimes

\* the body of the loop over result blocks: "invalid" is the early
\* return of TrackingResult(False), "raise" an exception leaving the method
NormalizeBlock(tracking_result) ==
    LET st == EventLoop(Locals0, tracking_result.dateAndTimes, 1)
    IN  IF LacksDateAndTimes(tracking_result)
        THEN [exit |-> "invalid", exc |-> "none", value |-> TrackingResult(FALSE)]
        ELSE IF st.exc # "none"
        THEN [exit |-> "raise", exc |-> st.exc, value |-> TrackingResult(FALSE)]
        ELSE [exit |-> "none", exc |-> "none",
              value |->
                [is_valid |-> TRUE,
                 tracking_number |-> Some(tracking_result.trackingNumber),
                 unique_id |-> Some(tracking_result.trackingNumberUniqueId),
                 carrier_code |-> Some(tracking_result.carrierCode),
                 is_delivered |-> Some(st.delivered),
                 is_shipped |-> Some(st.shipped),
                 date_ship |-> st.ship_date,
                 date_delivery |-> st.delivery_date,
                 latest_status |->
                    Some(DateAndTimeEvent(st.latest_date, st.latest_type)),
                 events |-> Some(st.events),
                 package |-> None]]

RECURSIVE BlockLoop(_, _, _)
BlockLoop(blocks, i, tracking_results) ==
    IF i > Len(blocks)
    THEN [exit |-> "none", exc |-> "none", tracking_results |-> tracking_results]
    ELSE LET nb == NormalizeBlock(blocks[i])
         IN  IF nb.exit # "none"
             THEN [exit |-> nb.exit, exc |-> nb.exc,
                   tracking_results |-> tracking_results]
             ELSE BlockLoop(blocks, i + 1, Append(tracking_results, nb.value))

\* the comparison of the resolver loop, on two datetimes that are not None
ResultIsLater_OrEqual(dt, latest_date) == dt >= latest_date

ResultIsLater(dt, latest_date) == dt > latest_date

\* the loop that picks the result with the latest status; comparing with a
\* datetime that is None raises TypeError
RECURSIVE ResolveLoop(_, _, _, _)
ResolveLoop(tracking_results, i, latest_date, latest_result) ==
    IF i > Len(tracking_results)
    THEN [ret |-> "return", exc |-> "none", value |-> latest_result]
    ELSE LET result == tracking_results[i]
             dt == result.latest_status[1].datetime
         IN  IF latest_result = None
             THEN ResolveLoop(tracking_results, i + 1, dt, Some(result))
             ELSE IF dt = None \/ latest_date = None
             THEN [ret |-> "raise", exc |-> "TypeError", value |-> None]
             ELSE IF ResultIsLater(dt[1], latest_date[1])
             THEN ResolveLoop(tracking_results, i + 1, dt, Some(result))
             ELSE ResolveLoop(tracking_results, i + 1, latest_date, latest_result)

\* the whole method, given the response the transport delivers
track_by_number(resp) ==
    LET lp == BlockLoop(resp.blocks, 1, <<>>)
        rs == ResolveLoop(lp.tracking_results, 1, None, None)
    IN  IF ~resp.status_ok
        THEN [ret |-> "return", exc |-> "none",
              value |-> Some(TrackingResult(FALSE)), tracking_results |-> <<>>]
        ELSE IF resp.errors
        THEN [ret |-> "return", exc |-> "none",
              value |-> Some(TrackingResult(FALSE)), tracking_results |-> <<>>]
        ELSE IF lp.exit = "invalid"
        THEN [ret |-> "return", exc |-> "none",
              value |-> Some(TrackingResult(FALSE)),
              tracking_results |-> lp.tracking_results]
        ELSE IF lp.exit = "raise"
        THEN [ret |-> "raise", exc |-> lp.exc, value |-> None,
              tracking_results |-> lp.tracking_results]
        ELSE [ret |-> rs.ret, exc |-> rs.exc, value |-> rs.value,
              tracking_results |-> lp.tracking_results]

\* ------------------------------------------------------------ download_pod
\* str.split('~')
RECURSIVE split(_)
split(s) ==
    IF \A i \in 1..Len(s) : s[i] # "~" THEN <<s>>
    ELSE LET i == CHOOSE j \in 1..Len(s) :
                      s[j] = "~" /\ \A h \in 1..(j - 1) : s[h] # "~"
         IN  <<SubSeq(s, 1, i - 1)>> \o split(SubSeq(s, i + 1, Len(s)))

\* len(unique_id.split('~')) == 1
NeedsQuery_Always(unique_id) == TRUE

NeedsQuery(unique_id) == Len(split(unique_id)) = 1

\* what the statements after the call of track_by_number do with its result
ResolveUniqueId_Unchecked(r) ==
    IF r.ret = "raise" THEN [exc |-> r.exc, unique_id |-> None]
    ELSE IF r.value = None THEN [exc |-> "AttributeError", unique_id |-> None]
    ELSE [exc |-> "none", unique_id |-> r.value[1].unique_id]

ResolveUniqueId(r) ==
    IF r.ret = "raise" THEN [exc |-> r.exc, unique_id |-> None]
    ELSE IF r.value = None THEN [exc |-> "AttributeError", unique_id |-> None]
    ELSE IF ~r.value[1].is_valid
    THEN [exc |-> "InvalidRequestError", unique_id |-> None]
    ELSE [exc |-> "none", unique_id |-> r.value[1].unique_id]

\* ------------------------------------------------------------------- state
VARIABLES
    pc,                 \* "idle", "pod_fetch" (download_pod before its fetch), "done"
    op,                 \* "none", "track", "pod": the method called
    arg,                \* the number / unique_id argument of the call
    response,           \* None, or Some(the response of the tracking transport)
    result,             \* what track_by_number returned or raised
    tracking_results,   \* the local list of normalised blocks at its exit
    unique_id,          \* download_pod's unique_id once resolved
    fetched,            \* None, or Some(<<qualifier, tracking_number>>) fetched
    exc,                \* the exception that left the called method, or "none"
    trackCalls,         \* calls of the tracking transport made by the call
    fetchCalls          \* calls of _download_file made by the call

vars == <<pc, op, arg, response, result, tracking_results, unique_id, fetched,
          exc, trackCalls, fetchCalls>>

NoResult == [ret |-> "none", exc |-> "none", value |-> None]

Init ==
    /\ pc = "idle"
    /\ op = "none"
    /\ arg = None
    /\ response = None
    /\ result = NoResult
    /\ tracking_results = <<>>
    /\ unique_id = None
    /\ fetched = None
    /\ exc = "none"
    /\ trackCalls = 0
    /\ fetchCalls = 0

\* a caller invokes track_by_number(number); the transport delivers a response
TrackByNumber(number) ==
    /\ pc = "idle"
    /\ pc' = "done"
    /\ op' = "track"
    /\ arg' = Some(number)
    /\ trackCalls' = trackCalls + 1
    /\ \E status \in Statuses : \E shape \in ShapesFor(status) :
       \E flat \in [1..Total(shape, 1) -> RawEvents] :
       \E resp \in {Response(status, shape, flat)} :
       \E r \in {track_by_number(resp)} :
        /\ response' = Some(resp)
        /\ result' = [ret |-> r.ret, exc |-> r.exc, value |-> r.value]
        /\ tracking_results' = r.tracking_results
        /\ exc' = r.exc
    /\ UNCHANGED <<unique_id, fetched, fetchCalls>>

\* download_pod(uid, ...) up to the call of _download_file: the identifier is
\* resolved, through track_by_number when it holds no '~'
DownloadPod(uid) ==
    /\ pc = "idle"
    /\ op' = "pod"
    /\ arg' = Some(uid)
    /\ IF NeedsQuery(uid)
       THEN \E status \in Statuses : \E shape \in ShapesFor(status) :
            \E flat \in [1..Total(shape, 1) -> RawEvents] :
            \E resp \in {Response(status, shape, flat)} :
            \E r \in {track_by_number(resp)} :
            \E u \in {ResolveUniqueId(r)} :
                /\ response' = Some(resp)
                /\ trackCalls' = trackCalls + 1
                /\ result' = [ret |-> r.ret, exc |-> r.exc, value |-> r.value]
                /\ tracking_results' = r.tracking_results
                /\ exc' = u.exc
                /\ unique_id' = u.unique_id
                /\ pc' = IF u.exc = "none" THEN "pod_fetch" ELSE "done"
       ELSE /\ unique_id' = Some(uid)
            /\ pc' = "pod_fetch"
            /\ UNCHANGED <<response, trackCalls, result, tracking_results, exc>>
    /\ UNCHANGED <<fetched, fetchCalls>>

\* the rest of download_pod: split the unique id and fetch the document;
\* _download_file raises HTTPError when the server answers with an error status
DownloadPodFetch(ok) ==
    LET parts == IF unique_id = None THEN <<>> ELSE split(unique_id[1])
    IN  /\ pc = "pod_fetch"
        /\ pc' = "done"
        /\ IF unique_id = None
           THEN /\ exc' = "AttributeError"
                /\ UNCHANGED <<fetched, fetchCalls>>
           ELSE IF Len(parts) < 2
           THEN /\ exc' = "IndexError"
                /\ UNCHANGED <<fetched, fetchCalls>>
           ELSE /\ fetched' = Some(<<parts[1], parts[2]>>)
                /\ fetchCalls' = fetchCalls + 1
                /\ exc' = IF ok THEN "none" ELSE "HTTPError"
        /\ UNCHANGED <<op, arg, response, result, tracking_results, unique_id,
                       trackCalls>>

\* the call is over; the next one starts from scratch
Return ==
    /\ pc = "done"
    /\ pc' = "idle"
    /\ op' = "none"
    /\ arg' = None
    /\ response' = None
    /\ result' = NoResult
    /\ tracking_results' = <<>>
    /\ unique_id' = None
    /\ fetched' = None
    /\ exc' = "none"
    /\ trackCalls' = 0
    /\ fetchCalls' = 0

Next ==
    \/ TrackByNumber(BareNumber)
    \/ \E uid \in PodIds : DownloadPod(uid)
    \/ \E ok \in BOOLEAN : DownloadPodFetch(ok)
    \/ Return

Spec == Init /\ [][Next]_vars

\* ------------------------------------------------------- checked properties
\* a call of track_by_number has been made and has ended
Tracked == result.ret # "none"

isBare(s) == \A i \in 1..Len(s) : s[i] # "~"

AllKnown(evs) == \A j \in 1..Len(evs) : evs[j].type \in EventNames

Has(evs, kind) == \E j \in 1..Len(evs) : evs[j].type = kind

\* the earliest position holding the maximal timestamp of a non-empty sequence
FirstMaxPos(evs) ==
    CHOOSE k \in 1..Len(evs) :
        /\ \A j \in 1..Len(evs) : evs[j].dateTime <= evs[k].dateTime
        /\ \A j \in 1..(k - 1) : evs[j].dateTime < evs[k].dateTime

\* the last position holding an event of this kind
LastPos(evs, kind) ==
    CHOOSE k \in 1..Len(evs) :
        /\ evs[k].type = kind
        /\ \A j \in (k + 1)..Len(evs) : evs[j].type # kind

LatestOf(tr) == tr.latest_status[1].datetime[1]

\* the earliest normalised block whose latest timestamp is maximal
FirstLatestPos(trs) ==
    CHOOSE k \in 1..Len(trs) :
        /\ \A j \in 1..Len(trs) : LatestOf(trs[j]) <= LatestOf(trs[k])
        /\ \A j \in 1..(k - 1) : LatestOf(trs[j]) < LatestOf(trs[k])

ReturnedInvalid ==
    result = [ret |-> "return", exc |-> "none", value |-> Some(TrackingResult(FALSE))]

\* C1: for every result block with a non-empty event sequence, the outcome
\* built for it has as latestEvent the event at the earliest position among
\* those carrying the maximal timestamp of the block (timestamp and kind are
\* the ones of that event), whatever the kinds of the events.
C1_LatestEventIsFirstMaximum ==
    \A i \in 1..Len(tracking_results) :
        LET evs == response[1].blocks[i].dateAndTimes
        IN  evs # <<>> =>
              tracking_results[i].latest_status =
                Some(DateAndTimeEvent(Some(evs[FirstMaxPos(evs)].dateTime),
                                      Some(evs[FirstMaxPos(evs)].type)))

\* a returned outcome of a block in which a later event of another kind ties
\* with the maximal timestamp, the first of the two not touching
\* shipped / delivered
C1_Witness ==
    /\ pc = "done" /\ op = "track" /\ result.ret = "return"
    /\ \E i \in 1..Len(tracking_results) :
         LET evs == response[1].blocks[i].dateAndTimes
         IN  /\ result.value = Some(tracking_results[i])
             /\ \E j \in 1..Len(evs) : \E k \in (j + 1)..Len(evs) :
                  /\ j = FirstMaxPos(evs)
                  /\ evs[k].dateTime = evs[j].dateTime
                  /\ evs[j].type = "COMMITMENT"
                  /\ evs[k].type = "ACTUAL_DELIVERY"

\* C2: for every block that contains an ACTUAL_DELIVERY event the outcome
\* has isDelivered = true and deliveryDate equal to the timestamp of an
\* ACTUAL_DELIVERY event, wherever the ESTIMATED_DELIVERY events stand.
C2_ActualDeliveryWins ==
    \A i \in 1..Len(tracking_results) :
        LET evs == response[1].blocks[i].dateAndTimes
        IN  Has(evs, "ACTUAL_DELIVERY") =>
              /\ tracking_results[i].is_delivered = Some(TRUE)
              /\ \E j \in 1..Len(evs) :
                    /\ evs[j].type = "ACTUAL_DELIVERY"
                    /\ tracking_results[i].date_delivery = Some(evs[j].dateTime)

\* C3: when the response holds one or more result blocks, all of them
\* normalised (events present, not empty, of known kinds), track_by_number
\* returns the normalised block whose latest timestamp is maximal, the first
\* of them in response order when several share that maximum.
C3_ResolverPicksFirstLatest ==
    (/\ Tracked
     /\ response[1].status_ok /\ ~response[1].errors
     /\ response[1].blocks # <<>>
     /\ \A i \in 1..Len(response[1].blocks) :
           /\ response[1].blocks[i].hasDateAndTimes
           /\ response[1].blocks[i].dateAndTimes # <<>>
           /\ AllKnown(response[1].blocks[i].dateAndTimes))
    => /\ Len(tracking_results) = Len(response[1].blocks)
       /\ result.ret = "return"
       /\ result.value = Some(tracking_results[FirstLatestPos(tracking_results)])

\* two different blocks share the maximal latest timestamp and the first is
\* the one returned
C3_Witness ==
    /\ pc = "done" /\ op = "track" /\ result.ret = "return"
    /\ Len(tracking_results) = 2
    /\ tracking_results[1] # tracking_results[2]
    /\ LatestOf(tracking_results[1]) = LatestOf(tracking_results[2])
    /\ result.value = Some(tracking_results[1])

C5_EmptyEventsRejected ==
    /\ \A i \in 1..Len(tracking_results) :
          response[1].blocks[i].dateAndTimes # <<>>
    /\ (result.ret = "return" /\ result.value # None /\ result.value[1].is_valid)
          => result.value[1].latest_status[1].datetime # None

\* C6: a successful response without error and without result blocks makes
\* track_by_number fail; it never returns None in place of an outcome.
C6_NoResultsIsAFault ==
    /\ (/\ Tracked
        /\ response[1].status_ok /\ ~response[1].errors
        /\ response[1].blocks = <<>>)
       => result.ret = "raise"
    /\ ~(result.ret = "return" /\ result.value = None)

\* C7: when every block of a successful response without error has its
\* events substructure and some event carries a kind that is no member of
\* the enumeration, track_by_number ends with the lookup fault, which leaves
\* the method towards the caller; no outcome is returned.
C7_UnknownKindRaises ==
    (/\ Tracked
     /\ response[1].status_ok /\ ~response[1].errors
     /\ \A i \in 1..Len(response[1].blocks) :
           response[1].blocks[i].hasDateAndTimes
     /\ \E i \in 1..Len(response[1].blocks) :
           ~AllKnown(response[1].blocks[i].dateAndTimes))
    => /\ result = [ret |-> "raise", exc |-> "KeyError", value |-> None]
       /\ pc = "done" /\ exc = "KeyError"

\* the unknown kind stands in the second block, after a block that was
\* normalised and after a known event of its own block
C7_Witness ==
    /\ pc = "done" /\ op = "track"
    /\ Len(tracking_results) = 1
    /\ Len(response[1].blocks) = 2
    /\ Len(response[1].blocks[2].dateAndTimes) = 2
    /\ response[1].blocks[2].dateAndTimes[1].type \in EventNames
    /\ response[1].blocks[2].dateAndTimes[2].type \notin EventNames
    /\ result.ret = "raise"

\* C8: in download_pod, a bare tracking number that track_by_number resolves
\* to an outcome with valid = false ends the call with InvalidRequestError
\* and without a fetch; and whenever a fetch was made, the identifier had
\* been resolved to the qualifier / number pair fetched, through a valid
\* outcome when the identifier was a bare number.
C8_NoFetchWithoutResolution ==
    /\ (/\ op = "pod"
        /\ result.ret = "return" /\ result.value # None
        /\ ~result.value[1].is_valid)
       => /\ pc = "done" /\ exc = "InvalidRequestError"
          /\ fetchCalls = 0 /\ fetched = None
    /\ fetchCalls > 0
       => /\ op = "pod" /\ unique_id # None
          /\ Len(split(unique_id[1])) >= 2
          /\ fetched = Some(<<split(unique_id[1])[1], split(unique_id[1])[2]>>)
          /\ isBare(arg[1])
             => /\ result.ret = "return" /\ result.value # None
                /\ result.value[1].is_valid
                /\ unique_id = result.value[1].unique_id

\* download_pod of a bare number has ended on an invalid outcome
C8_Witness ==
    /\ pc = "done" /\ op = "pod" /\ isBare(arg[1])
    /\ ReturnedInvalid
    /\ exc = "InvalidRequestError" /\ fetchCalls = 0

\* C9: a call of track_by_number calls the tracking transport at most once;
\* a call of download_pod makes at most one tracking query and at most one
\* document fetch, and no tracking query when its identifier holds a '~'.
C9_AtMostOneCallEach ==
    /\ trackCalls <= 1
    /\ fetchCalls <= 1
    /\ (op = "track" /\ pc = "done") => trackCalls = 1
    /\ (op = "pod" /\ ~isBare(arg[1])) => (trackCalls = 0 /\ ~Tracked)

\* download_pod of an identifier in qualifier~number form has fetched
C9_Witness ==
    /\ pc = "done" /\ op = "pod" /\ arg = Some(<<"Q", "~", "7">>)
    /\ fetchCalls = 1 /\ trackCalls = 0
    /\ fetched = Some(<<<<"Q">>, <<"7">>>>)

\* C10: for every block without ACTUAL_DELIVERY event the outcome has
\* isDelivered = false, and deliveryDate is the timestamp of the
\* ESTIMATED_DELIVERY event that stands last in the block, or is absent when
\* the block has no such event.
C10_LastEstimateWithoutActual ==
    \A i \in 1..Len(tracking_results) :
        LET evs == response[1].blocks[i].dateAndTimes
        IN  ~Has(evs, "ACTUAL_DELIVERY") =>
              /\ tracking_results[i].is_delivered = Some(FALSE)
              /\ tracking_results[i].date_delivery =
                    IF Has(evs, "ESTIMATED_DELIVERY")
                    THEN Some(evs[LastPos(evs, "ESTIMATED_DELIVERY")].dateTime)
                    ELSE None

\* the returned outcome is of a block whose last estimate is earlier than
\* the estimate before it
C10_Witness ==
    /\ pc = "done" /\ op = "track" /\ result.ret = "return"
    /\ \E i \in 1..Len(tracking_results) :
         LET evs == response[1].blocks[i].dateAndTimes
         IN  /\ result.value = Some(tracking_results[i])
             /\ Len(evs) = 2
             /\ evs[1].type = "ESTIMATED_DELIVERY"
             /\ evs[2].type = "ESTIMATED_DELIVERY"
             /\ evs[2].dateTime < evs[1].dateTime
             /\ tracking_results[i].date_delivery = Some(evs[2].dateTime)

====
